---- MODULE Spec2Model ----
(***************************************************************************)
(* General Accounting Lab (src/app.py): the accounting derivation engine   *)
(* (calcula_balancete, calcula_dre, calcula_balanco,                       *)
(* calcula_fluxo_caixa_direto, calcula_fluxo_caixa_indireto) and the       *)
(* session state of the interactive shell (plano_contas, lancamentos).     *)
(*                                                                         *)
(* Amounts are Python floats.  A float is modelled as an integer number of *)
(* base units that has at most MantBits significant bits; every addition   *)
(* and subtraction rounds its exact result to the nearest such number,     *)
(* ties to even, as IEEE-754 binary64 does with 53 bits.                   *)
(*                                                                         *)
(* Strings that the code only compares are TLA+ strings.  The strings the  *)
(* entry form concatenates and splits (codigo, conta) are sequences of     *)
(* tokens, one of which is the separator " - ".                            *)
(***************************************************************************)
EXTENDS Integers, Sequences, FiniteSets

\* ------------------------------------------------------------------ bounds

\* Significant bits of a float (binary64 has 53).
MantBits == 8

\* Longest journal of the journals drawn exhaustively as inputs of the engine;
\* the longer journals of Init are named ones.
MaxJournal == 2

\* Longest journal the shell session is followed to.
MaxSessao == 1

\* ------------------------------------------------------- float arithmetic

RECURSIVE Pow2(_)
Pow2(n) == IF n = 0 THEN 1 ELSE 2 * Pow2(n - 1)

Abs(x) == IF x < 0 THEN -x ELSE x

\* Spacing of the floats around the magnitude m.
RECURSIVE Ulp(_)
Ulp(m) == IF m < Pow2(MantBits) THEN 1 ELSE 2 * Ulp(m \div 2)

\* Round to nearest, ties to even.
Round(x) ==
    LET m == Abs(x)
        u == Ulp(m)
        q == m \div u
        r == m % u
        up == IF 2 * r > u \/ (2 * r = u /\ q % 2 = 1) THEN 1 ELSE 0
        v == (q + up) * u
    IN  IF x < 0 THEN -v ELSE v

\* a + b on floats.
FAdd(a, b) == Round(a + b)

\* a - b on floats.
FSub(a, b) == Round(a - b)

\* max(a, b) of Python: the first argument unless the second is greater.
Max(a, b) == IF b > a THEN b ELSE a

\* Series.sum() of a short column: left to right from 0.0.
RECURSIVE SomaDe(_, _, _)
SomaDe(col, i, acc) ==
    IF i > Len(col) THEN acc ELSE SomaDe(col, i + 1, FAdd(acc, col[i]))

Soma(col) == SomaDe(col, 1, 0)

\* The exact (real-number) sum of a column.
RECURSIVE SomaExata(_)
SomaExata(col) == IF col = <<>> THEN 0 ELSE Head(col) + SomaExata(Tail(col))

\* ------------------------------------------------------------------ strings

SEP == " - "

\* str.split(" - ")[0]: the tokens before the first separator.
RECURSIVE SplitPrimeiro(_)
SplitPrimeiro(s) ==
    IF s = <<>> \/ Head(s) = SEP THEN <<>>
    ELSE <<Head(s)>> \o SplitPrimeiro(Tail(s))

\* Column of a table (a sequence of records).
Coluna(df, c) == [i \in 1..Len(df) |-> df[i][c]]

\* x in lista
Contem(lista, x) == \E i \in 1..Len(lista) : lista[i] = x

\* Number of rows whose column c is x.
Ocorrencias(df, c, x) == Cardinality({i \in 1..Len(df) : df[i][c] = x})

\* --------------------------------------------------------- chart of accounts

Conta(codigo, conta, grupo, natureza, eh_caixa) ==
    [codigo |-> codigo, conta |-> conta, grupo |-> grupo,
     natureza |-> natureza, eh_caixa |-> eh_caixa]

\* The seeded chart.
init_plano_contas ==
    << Conta(<<"1.1.1">>, <<"Caixa">>, "Ativo", "Devedora", TRUE),
       Conta(<<"1.1.2">>, <<"Bancos Conta Movimento">>, "Ativo", "Devedora", TRUE),
       Conta(<<"1.1.3">>, <<"Clientes">>, "Ativo", "Devedora", FALSE),
       Conta(<<"1.1.4">>, <<"Estoques">>, "Ativo", "Devedora", FALSE),
       Conta(<<"1.2.1">>, <<"Imobilizado">>, "Ativo", "Devedora", FALSE),
       Conta(<<"2.1.1">>, <<"Fornecedores">>, "Passivo", "Credora", FALSE),
       Conta(<<"2.1.2">>, <<"Empréstimos a Pagar">>, "Passivo", "Credora", FALSE),
       Conta(<<"2.2.1">>, <<"Obrigações Trabalhistas">>, "Passivo", "Credora", FALSE),
       Conta(<<"2.2.2">>, <<"Obrigações Fiscais">>, "Passivo", "Credora", FALSE),
       Conta(<<"2.3.1">>, <<"Capital Social">>, "Patrimônio Líquido", "Credora", FALSE),
       Conta(<<"2.3.2">>, <<"Reservas de Lucros">>, "Patrimônio Líquido", "Credora", FALSE),
       Conta(<<"3.1.1">>, <<"Receita de Vendas">>, "Resultado - Receita", "Credora", FALSE),
       Conta(<<"3.1.2">>, <<"Outras Receitas Operacionais">>, "Resultado - Receita", "Credora", FALSE),
       Conta(<<"4.1.1">>, <<"Custo das Mercadorias Vendidas">>, "Resultado - Despesa", "Devedora", FALSE),
       Conta(<<"4.1.2">>, <<"Despesas com Pessoal">>, "Resultado - Despesa", "Devedora", FALSE),
       Conta(<<"4.1.3">>, <<"Despesas Administrativas">>, "Resultado - Despesa", "Devedora", FALSE),
       Conta(<<"4.1.4">>, <<"Despesas Financeiras">>, "Resultado - Despesa", "Devedora", FALSE) >>

Caixa == init_plano_contas[1]
Bancos == init_plano_contas[2]
Fornecedores == init_plano_contas[6]
CapitalSocial == init_plano_contas[10]
ReceitaVendas == init_plano_contas[12]
DespesasPessoal == init_plano_contas[15]

\* Rows a user can type into the chart editor: a cash account of credit
\* nature, a second row with the code of Receita de Vendas, and a code that
\* contains the separator of the entry form.
ChequeEspecial == Conta(<<"1.1.2">>, <<"Cheque Especial">>, "Passivo", "Credora", TRUE)
ReceitaRepetida == Conta(<<"3.1.1">>, <<"Receita Repetida">>, "Resultado - Despesa", "Devedora", FALSE)
ContaComSeparador == Conta(<<"5", SEP, "1">>, <<"Diversos">>, "Ativo", "Devedora", FALSE)

\* The charts the chart editor is given: subsets and edits of the seeded one.
PlanosEditados ==
    { <<Caixa, ReceitaVendas, DespesasPessoal>>,
      <<Caixa, Bancos, ReceitaVendas>>,
      <<Caixa, Fornecedores, CapitalSocial>>,
      <<ChequeEspecial, ReceitaVendas, DespesasPessoal>>,
      <<Caixa, ReceitaVendas, ReceitaRepetida>>,
      <<ContaComSeparador, Caixa>>,
      <<>> }

\* A code no chart has.
CodigoAusente == <<"9.9.9">>

\* Amounts the entry form is given: a small one, and the largest float below
\* 2^MantBits, whose sums with the small one need rounding.
Valores == {2, Pow2(MantBits) - 1}

CodigosDe(plano) == {plano[i].codigo : i \in 1..Len(plano)}

Lancamento(deb, cred, valor) ==
    [conta_debito |-> deb, conta_credito |-> cred, valor |-> valor]

\* Entries over the codes of a chart and one code it lacks.
LancamentosSobre(plano) ==
    LET cods == CodigosDe(plano) \cup {CodigoAusente}
    IN  {Lancamento(d, c, v) : d \in cods, c \in cods, v \in Valores}

DiariosSobre(plano) ==
    UNION {[1..n -> LancamentosSobre(plano)] : n \in 0..MaxJournal}

\* ------------------------------------------------------------------ engine

\* One row of the trial balance before the balances are computed.
LinhaBalancete(c) ==
    [codigo |-> c.codigo, conta |-> c.conta, grupo |-> c.grupo,
     natureza |-> c.natureza, eh_caixa |-> c.eh_caixa,
     debito |-> 0, credito |-> 0]

\* A mutant of Lanca: the credit side is not posted on the row that was
\* debited by the same entry.
LancaSemCreditoProprio(bal, l) ==
    [i \in 1..Len(bal) |->
        [bal[i] EXCEPT
            !.debito = IF bal[i].codigo = l.conta_debito
                       THEN FAdd(@, l.valor) ELSE @,
            !.credito = IF bal[i].codigo = l.conta_credito
                           /\ bal[i].codigo # l.conta_debito
                        THEN FAdd(@, l.valor) ELSE @]]

\* One pass of the loop over the journal: the rows whose code is the entry's
\* debit account get the amount on debito, those whose code is its credit
\* account on credito; a code that matches no row updates nothing.
Lanca(bal, l) ==
    [i \in 1..Len(bal) |->
        [bal[i] EXCEPT
            !.debito = IF bal[i].codigo = l.conta_debito
                       THEN FAdd(@, l.valor) ELSE @,
            !.credito = IF bal[i].codigo = l.conta_credito
                        THEN FAdd(@, l.valor) ELSE @]]

RECURSIVE LancaTodos(_, _, _)
LancaTodos(bal, lanc, i) ==
    IF i > Len(lanc) THEN bal ELSE LancaTodos(Lanca(bal, lanc[i]), lanc, i + 1)

\* A mutant of Saldos: a credit-natured row gets its balances from the
\* branch of the debit-natured ones.
SaldosSemNatureza(row) ==
    LET s == FSub(row.debito, row.credito)
    IN  [saldo |-> s, saldo_devedor |-> Max(s, 0), saldo_credor |-> Max(-s, 0)]

\* The balances of one row, by the nature of its account.
Saldos(row) ==
    IF row.natureza = "Devedora"
    THEN LET s == FSub(row.debito, row.credito)
         IN  [saldo |-> s, saldo_devedor |-> Max(s, 0), saldo_credor |-> Max(-s, 0)]
    ELSE LET s == FSub(row.credito, row.debito)
         IN  [saldo |-> s, saldo_devedor |-> Max(-s, 0), saldo_credor |-> Max(s, 0)]

calcula_balancete(plano, lanc) ==
    LET bal == LancaTodos([i \in 1..Len(plano) |-> LinhaBalancete(plano[i])], lanc, 1)
    IN  [i \in 1..Len(bal) |->
            LET r == bal[i]
                b == Saldos(r)
            IN  [codigo |-> r.codigo, conta |-> r.conta, grupo |-> r.grupo,
                 natureza |-> r.natureza, eh_caixa |-> r.eh_caixa,
                 debito |-> r.debito, credito |-> r.credito,
                 saldo |-> b.saldo, saldo_devedor |-> b.saldo_devedor,
                 saldo_credor |-> b.saldo_credor]]

EhReceita(r) == r.grupo = "Resultado - Receita"
EhDespesa(r) == r.grupo = "Resultado - Despesa"
EhAtivo(r) == r.grupo = "Ativo"
EhPassivo(r) == r.grupo = "Passivo"
EhPL(r) == r.grupo = "Patrimônio Líquido"
EhCaixa(r) == r.eh_caixa

LinhaDre(descricao, valor) ==
    [descricao |-> descricao, detalhe |-> "", valor |-> valor]

\* A mutant of calcula_dre: the expenses are valued at their credit balance.
calcula_dre_despesa_credora(balancete) ==
    LET total_receitas == Soma(Coluna(SelectSeq(balancete, EhReceita), "saldo_credor"))
        total_despesas == Soma(Coluna(SelectSeq(balancete, EhDespesa), "saldo_credor"))
        lucro_liquido == FSub(total_receitas, total_despesas)
    IN  [dre |-> << LinhaDre("Receitas", total_receitas),
                    LinhaDre("(-) Despesas", -total_despesas),
                    LinhaDre("= Lucro / Prejuízo do Período", lucro_liquido) >>,
         lucro_liquido |-> lucro_liquido]

calcula_dre(balancete) ==
    LET total_receitas == Soma(Coluna(SelectSeq(balancete, EhReceita), "saldo_credor"))
        total_despesas == Soma(Coluna(SelectSeq(balancete, EhDespesa), "saldo_devedor"))
        lucro_liquido == FSub(total_receitas, total_despesas)
    IN  [dre |-> << LinhaDre("Receitas", total_receitas),
                    LinhaDre("(-) Despesas", -total_despesas),
                    LinhaDre("= Lucro / Prejuízo do Período", lucro_liquido) >>,
         lucro_liquido |-> lucro_liquido]

\* rows[["codigo", "conta", "valor"]] with valor taken from the column col.
Valoriza(rows, col) ==
    [i \in 1..Len(rows) |->
        [codigo |-> rows[i].codigo, conta |-> rows[i].conta, valor |-> rows[i][col]]]

\* A mutant of calcula_balanco: the accounts without balance are left out.
calcula_balanco_sem_zeros(balancete) ==
    LET ComSaldo(r) == r.valor # 0
    IN  [ativo |-> SelectSeq(Valoriza(SelectSeq(balancete, EhAtivo), "saldo_devedor"), ComSaldo),
         passivo |-> SelectSeq(Valoriza(SelectSeq(balancete, EhPassivo), "saldo_credor"), ComSaldo),
         pl |-> SelectSeq(Valoriza(SelectSeq(balancete, EhPL), "saldo_credor"), ComSaldo)]

calcula_balanco(balancete) ==
    [ativo |-> Valoriza(SelectSeq(balancete, EhAtivo), "saldo_devedor"),
     passivo |-> Valoriza(SelectSeq(balancete, EhPassivo), "saldo_credor"),
     pl |-> Valoriza(SelectSeq(balancete, EhPL), "saldo_credor")]

\* The labels the direct method sorts by, in the order of Python's string
\* comparison (by code point).
OrdemTexto ==
    << "Ativo", "Entrada de Caixa", "Passivo", "Patrimônio Líquido",
       "Resultado - Despesa", "Resultado - Receita", "Saída de Caixa" >>

Posicao(s) == CHOOSE i \in 1..Len(OrdemTexto) : OrdemTexto[i] = s

\* a < b on the key (tipo, grupo_contraparte).
ChaveMenor(a, b) ==
    \/ Posicao(a[1]) < Posicao(b[1])
    \/ a[1] = b[1] /\ Posicao(a[2]) < Posicao(b[2])

\* The keys in ascending order.
Ordena(K) ==
    [i \in 1..Cardinality(K) |->
        CHOOSE k \in K : Cardinality({j \in K : ChaveMenor(j, k)}) = i - 1]

ColunasFluxo == <<"tipo", "grupo_contraparte", "entrada", "saida">>

\* pd.DataFrame(columns=[...]): a table without rows.
FluxoVazio == [columns |-> ColunasFluxo, rows |-> <<>>]

\* plano.loc[cod, "grupo"] on the chart indexed by codigo: a KeyError when no
\* row has the code, the group when one has, a Series when several have.
Loc(plano, cod) ==
    LET n == Ocorrencias(plano, "codigo", cod)
    IN  IF n = 0 THEN [classe |-> "KeyError", grupo |-> ""]
        ELSE IF n = 1
        THEN [classe |-> "escalar",
              grupo |-> plano[CHOOSE i \in 1..Len(plano) : plano[i].codigo = cod].grupo]
        ELSE [classe |-> "Series", grupo |-> "Series"]

\* plano_contas[plano_contas["eh_caixa"]]["codigo"].tolist()
ContasCaixa(plano) == Coluna(SelectSeq(plano, EhCaixa), "codigo")

\* A mutant of Classifica: every debit of a cash account is an inflow, also
\* when the credit account is cash.
ClassificaSemContraparte(plano, l) ==
    LET contas_caixa == ContasCaixa(plano)
        deb == l.conta_debito
        cred == l.conta_credito
    IN  IF Contem(contas_caixa, deb)
        THEN LET g == Loc(plano, cred)
             IN  [classe |-> g.classe,
                  linha |-> [tipo |-> "Entrada de Caixa", grupo_contraparte |-> g.grupo,
                             entrada |-> l.valor, saida |-> 0]]
        ELSE IF Contem(contas_caixa, cred) /\ ~Contem(contas_caixa, deb)
        THEN LET g == Loc(plano, deb)
             IN  [classe |-> g.classe,
                  linha |-> [tipo |-> "Saída de Caixa", grupo_contraparte |-> g.grupo,
                             entrada |-> 0, saida |-> l.valor]]
        ELSE [classe |-> "nenhuma", linha |-> <<>>]

\* The body of the loop over the journal: the line an entry appends, if any.
Classifica(plano, l) ==
    LET contas_caixa == ContasCaixa(plano)
        deb == l.conta_debito
        cred == l.conta_credito
    IN  IF Contem(contas_caixa, deb) /\ ~Contem(contas_caixa, cred)
        THEN LET g == Loc(plano, cred)
             IN  [classe |-> g.classe,
                  linha |-> [tipo |-> "Entrada de Caixa", grupo_contraparte |-> g.grupo,
                             entrada |-> l.valor, saida |-> 0]]
        ELSE IF Contem(contas_caixa, cred) /\ ~Contem(contas_caixa, deb)
        THEN LET g == Loc(plano, deb)
             IN  [classe |-> g.classe,
                  linha |-> [tipo |-> "Saída de Caixa", grupo_contraparte |-> g.grupo,
                             entrada |-> 0, saida |-> l.valor]]
        ELSE [classe |-> "nenhuma", linha |-> <<>>]

\* The loop over the journal; it ends at the first KeyError.
RECURSIVE Linhas(_, _, _, _)
Linhas(plano, lanc, i, acc) ==
    IF i > Len(lanc) THEN [erro |-> "", linhas |-> acc]
    ELSE LET c == Classifica(plano, lanc[i])
         IN  IF c.classe = "KeyError" THEN [erro |-> "KeyError", linhas |-> acc]
             ELSE IF c.classe = "nenhuma" THEN Linhas(plano, lanc, i + 1, acc)
             ELSE Linhas(plano, lanc, i + 1, Append(acc, c.linha))

\* df.groupby(["tipo", "grupo_contraparte"], as_index=False)[["entrada",
\* "saida"]].sum().sort_values(["tipo", "grupo_contraparte"]): one row per key,
\* the sums of its lines in the order of the lines, the keys ascending.
Resumo(linhas) ==
    LET chaves == Ordena({<<linhas[i].tipo, linhas[i].grupo_contraparte>> : i \in 1..Len(linhas)})
    IN  [k \in 1..Len(chaves) |->
            LET DoGrupo(l) == <<l.tipo, l.grupo_contraparte>> = chaves[k]
                g == SelectSeq(linhas, DoGrupo)
            IN  [tipo |-> chaves[k][1], grupo_contraparte |-> chaves[k][2],
                 entrada |-> Soma(Coluna(g, "entrada")),
                 saida |-> Soma(Coluna(g, "saida"))]]

\* The result is a table, or the exception that leaves the function: the
\* KeyError of the lookup, or the TypeError of grouping by a column that holds
\* a Series (unhashable).
calcula_fluxo_caixa_direto(plano, lanc) ==
    IF lanc = <<>> THEN [erro |-> "", df |-> FluxoVazio]
    ELSE LET r == Linhas(plano, lanc, 1, <<>>)
             EhSeries(l) == l.grupo_contraparte = "Series"
         IN  IF r.erro # "" THEN [erro |-> r.erro, df |-> FluxoVazio]
             ELSE IF r.linhas = <<>> THEN [erro |-> "", df |-> FluxoVazio]
             ELSE IF SelectSeq(r.linhas, EhSeries) # <<>>
             THEN [erro |-> "TypeError", df |-> FluxoVazio]
             ELSE [erro |-> "", df |-> [columns |-> ColunasFluxo, rows |-> Resumo(r.linhas)]]

\* A mutant of AtribuiSaldo: the outflows are added to the inflows.
AtribuiSaldoSomado(df) ==
    [columns |-> IF Contem(df.columns, "saldo") THEN df.columns
                 ELSE Append(df.columns, "saldo"),
     rows |-> [i \in 1..Len(df.rows) |->
                 [tipo |-> df.rows[i].tipo,
                  grupo_contraparte |-> df.rows[i].grupo_contraparte,
                  entrada |-> df.rows[i].entrada, saida |-> df.rows[i].saida,
                  saldo |-> FAdd(df.rows[i].entrada, df.rows[i].saida)]]]

\* fluxo_direto["saldo"] = fluxo_direto["entrada"] - fluxo_direto["saida"]:
\* the assignment writes the column into the caller's table.
AtribuiSaldo(df) ==
    [columns |-> IF Contem(df.columns, "saldo") THEN df.columns
                 ELSE Append(df.columns, "saldo"),
     rows |-> [i \in 1..Len(df.rows) |->
                 [tipo |-> df.rows[i].tipo,
                  grupo_contraparte |-> df.rows[i].grupo_contraparte,
                  entrada |-> df.rows[i].entrada, saida |-> df.rows[i].saida,
                  saldo |-> FSub(df.rows[i].entrada, df.rows[i].saida)]]]

LinhaIndireto(descricao, valor) == [descricao |-> descricao, valor |-> valor]

\* A mutant of calcula_fluxo_caixa_indireto: the adjustment is the net income
\* less the operating cash.
calcula_fluxo_caixa_indireto_invertido(bal, fluxo, lucro_liquido) ==
    LET variacao_caixa == Soma(Coluna(SelectSeq(bal, EhCaixa), "saldo"))
        vazio == fluxo.rows = <<>>
        depois == IF vazio THEN fluxo ELSE AtribuiSaldo(fluxo)
        caixa_oper == IF vazio THEN 0 ELSE Soma(Coluna(depois.rows, "saldo"))
        ajuste_capital_giro == FSub(lucro_liquido, caixa_oper)
    IN  [df |-> << LinhaIndireto("Lucro / Prejuízo do Período", lucro_liquido),
                   LinhaIndireto("(+/-) Ajustes no capital de giro (simplificado)",
                                 ajuste_capital_giro),
                   LinhaIndireto("= Caixa líquido das atividades operacionais", caixa_oper),
                   LinhaIndireto("Variação de Caixa no Período", variacao_caixa) >>,
         fluxo_direto |-> depois]

\* The result (df) and the table passed as fluxo_direto as the call leaves it.
calcula_fluxo_caixa_indireto(bal, fluxo, lucro_liquido) ==
    LET variacao_caixa == Soma(Coluna(SelectSeq(bal, EhCaixa), "saldo"))
        vazio == fluxo.rows = <<>>
        depois == IF vazio THEN fluxo ELSE AtribuiSaldo(fluxo)
        caixa_oper == IF vazio THEN 0 ELSE Soma(Coluna(depois.rows, "saldo"))
        ajuste_capital_giro == FSub(caixa_oper, lucro_liquido)
    IN  [df |-> << LinhaIndireto("Lucro / Prejuízo do Período", lucro_liquido),
                   LinhaIndireto("(+/-) Ajustes no capital de giro (simplificado)",
                                 ajuste_capital_giro),
                   LinhaIndireto("= Caixa líquido das atividades operacionais", caixa_oper),
                   LinhaIndireto("Variação de Caixa no Período", variacao_caixa) >>,
         fluxo_direto |-> depois]

\* ------------------------------------------------------------------- state

VARIABLES
    plano_contas,     \* st.session_state["plano_contas"]; the chart argument
    lancamentos,      \* st.session_state["lancamentos"]; the journal argument
    pc,               \* the builder that ran last
    balancete,        \* the table calcula_balancete returned
    dre,              \* the table calcula_dre returned
    lucro,            \* the net income calcula_dre returned
    bp,               \* the dictionary calcula_balanco returned
    fluxo_direto,     \* the table calcula_fluxo_caixa_direto returned
    fluxo_indireto,   \* the table calcula_fluxo_caixa_indireto returned
    erro,             \* the exception that left a builder, "" when none
    passado           \* the tables as they were handed to the last builder

vars == << plano_contas, lancamentos, pc, balancete, dre, lucro, bp,
           fluxo_direto, fluxo_indireto, erro, passado >>

\* The tables a builder can be handed, as they are now.
Tabelas ==
    [plano_contas |-> plano_contas, lancamentos |-> lancamentos,
     balancete |-> balancete, fluxo_direto |-> fluxo_direto]

SemResultados ==
    /\ balancete = <<>>
    /\ dre = <<>>
    /\ lucro = 0
    /\ bp = [ativo |-> <<>>, passivo |-> <<>>, pl |-> <<>>]
    /\ fluxo_direto = [columns |-> <<>>, rows |-> <<>>]
    /\ fluxo_indireto = <<>>
    /\ erro = ""
    /\ passado = Tabelas

\* The scenario of the specification: Caixa, Receita and Despesas; a sale of
\* 1000 received in cash and an expense of 300 paid in cash.
PlanoCenario == <<Caixa, ReceitaVendas, DespesasPessoal>>

DiarioCenario ==
    << Lancamento(Caixa.codigo, ReceitaVendas.codigo, 1000),
       Lancamento(DespesasPessoal.codigo, Caixa.codigo, 300) >>

\* Totals of 100 and 30 on an account of each nature.
DiarioSinais ==
    << Lancamento(Caixa.codigo, DespesasPessoal.codigo, 100),
       Lancamento(DespesasPessoal.codigo, Caixa.codigo, 30),
       Lancamento(ReceitaVendas.codigo, DespesasPessoal.codigo, 100),
       Lancamento(DespesasPessoal.codigo, ReceitaVendas.codigo, 30) >>

\* Three entries whose debit totals and credit totals add up in different
\* orders, as 0.1, 0.2 and 0.3 do in binary64: a sale received in cash, an
\* entry of Caixa against itself and an expense paid in cash.
DiarioArredondado ==
    << Lancamento(Caixa.codigo, ReceitaVendas.codigo, Pow2(MantBits) - 1),
       Lancamento(Caixa.codigo, Caixa.codigo, 2),
       Lancamento(DespesasPessoal.codigo, Caixa.codigo, 2) >>

\* Two cash accounts, a liability and an equity account; capital and a loan
\* received in cash, a transfer between the cash accounts, an entry of Caixa
\* against itself and a payment.
PlanoFluxo == <<Caixa, Bancos, Fornecedores, CapitalSocial>>

DiarioFluxo ==
    << Lancamento(Caixa.codigo, CapitalSocial.codigo, 2),
       Lancamento(Caixa.codigo, Fornecedores.codigo, 2),
       Lancamento(Bancos.codigo, Caixa.codigo, 2),
       Lancamento(Caixa.codigo, Caixa.codigo, 2),
       Lancamento(Fornecedores.codigo, Bancos.codigo, 2) >>

\* A loan received in cash and an expense bought on credit: the net income
\* and the operating cash are far apart.
PlanoCompetencia == <<Caixa, Fornecedores, DespesasPessoal>>

DiarioCompetencia ==
    << Lancamento(Caixa.codigo, Fornecedores.codigo, Pow2(MantBits) - 1),
       Lancamento(DespesasPessoal.codigo, Fornecedores.codigo, 2) >>

\* The engine is handed a chart and a journal.
Init ==
    /\ pc = "inicio"
    /\ \/ /\ plano_contas \in PlanosEditados
          /\ lancamentos \in DiariosSobre(plano_contas)
       \/ /\ plano_contas = PlanoCenario
          /\ lancamentos \in {DiarioCenario, DiarioSinais, DiarioArredondado}
       \/ /\ plano_contas = PlanoFluxo
          /\ lancamentos = DiarioFluxo
       \/ /\ plano_contas = PlanoCompetencia
          /\ lancamentos = DiarioCompetencia
    /\ SemResultados

ChamaBalancete ==
    /\ pc = "inicio"
    /\ passado' = Tabelas
    /\ balancete' = calcula_balancete(plano_contas, lancamentos)
    /\ pc' = "balancete"
    /\ UNCHANGED << plano_contas, lancamentos, dre, lucro, bp, fluxo_direto,
                    fluxo_indireto, erro >>

ChamaDre ==
    /\ pc = "balancete"
    /\ passado' = Tabelas
    /\ LET r == calcula_dre(balancete)
       IN  dre' = r.dre /\ lucro' = r.lucro_liquido
    /\ pc' = "dre"
    /\ UNCHANGED << plano_contas, lancamentos, balancete, bp, fluxo_direto,
                    fluxo_indireto, erro >>

ChamaBalanco ==
    /\ pc = "dre"
    /\ passado' = Tabelas
    /\ bp' = calcula_balanco(balancete)
    /\ pc' = "balanco"
    /\ UNCHANGED << plano_contas, lancamentos, balancete, dre, lucro,
                    fluxo_direto, fluxo_indireto, erro >>

ChamaDireto ==
    /\ pc = "balanco"
    /\ passado' = Tabelas
    /\ LET r == calcula_fluxo_caixa_direto(plano_contas, lancamentos)
       IN  IF r.erro = ""
           THEN fluxo_direto' = r.df /\ erro' = erro /\ pc' = "direto"
           ELSE fluxo_direto' = fluxo_direto /\ erro' = r.erro /\ pc' = "excecao"
    /\ UNCHANGED << plano_contas, lancamentos, balancete, dre, lucro, bp,
                    fluxo_indireto >>

ChamaIndireto ==
    /\ pc = "direto"
    /\ passado' = Tabelas
    /\ LET r == calcula_fluxo_caixa_indireto(balancete, fluxo_direto, lucro)
       IN  fluxo_indireto' = r.df /\ fluxo_direto' = r.fluxo_direto
    /\ pc' = "indireto"
    /\ UNCHANGED << plano_contas, lancamentos, balancete, dre, lucro, bp, erro >>

Next ==
    \/ ChamaBalancete
    \/ ChamaDre
    \/ ChamaBalanco
    \/ ChamaDireto
    \/ ChamaIndireto

Spec == Init /\ [][Next]_vars

\* ----------------------------------------------------------------- session

\* Session start: the seeded chart and an empty journal.
InitSessao ==
    /\ pc = "sessao"
    /\ plano_contas = init_plano_contas
    /\ lancamentos = <<>>
    /\ SemResultados

\* Page "Plano de Contas": what the data editor returns replaces the chart.
EditaPlano ==
    /\ pc = "sessao"
    /\ \E edited \in PlanosEditados \cup {init_plano_contas} :
          plano_contas' = edited
    /\ UNCHANGED << lancamentos, pc, balancete, dre, lucro, bp, fluxo_direto,
                    fluxo_indireto, erro, passado >>

\* Page "Lançamentos", the form submitted: the two accounts are picked among
\* the options codigo + " - " + conta, and the code is what precedes the
\* first " - " of the option.
IncluiLancamento ==
    /\ pc = "sessao"
    /\ plano_contas # <<>>
    /\ Len(lancamentos) < MaxSessao
    /\ LET contas_combo ==
               [i \in 1..Len(plano_contas) |->
                   plano_contas[i].codigo \o <<SEP>> \o plano_contas[i].conta]
       IN  \E i \in 1..Len(contas_combo), j \in 1..Len(contas_combo), valor \in Valores :
              LET cod_deb == SplitPrimeiro(contas_combo[i])
                  cod_cred == SplitPrimeiro(contas_combo[j])
              IN  lancamentos' = Append(lancamentos, Lancamento(cod_deb, cod_cred, valor))
    /\ UNCHANGED << plano_contas, pc, balancete, dre, lucro, bp, fluxo_direto,
                    fluxo_indireto, erro, passado >>

\* Page "Lançamentos", the button "Limpar todos os lançamentos".
LimpaLancamentos ==
    /\ pc = "sessao"
    /\ lancamentos' = <<>>
    /\ UNCHANGED << plano_contas, pc, balancete, dre, lucro, bp, fluxo_direto,
                    fluxo_indireto, erro, passado >>

NextSessao ==
    \/ EditaPlano
    \/ IncluiLancamento
    \/ LimpaLancamentos

SpecSessao == InitSessao /\ [][NextSessao]_vars

\* ------------------------------------------------------------------ claims

CodigosUnicos(plano) ==
    \A i, j \in 1..Len(plano) : plano[i].codigo = plano[j].codigo => i = j

\* Every code of the journal is a code of the chart.
Resolvido(plano, lanc) ==
    \A k \in 1..Len(lanc) :
        /\ lanc[k].conta_debito \in CodigosDe(plano)
        /\ lanc[k].conta_credito \in CodigosDe(plano)

\* No addition over the amounts of the journal rounds: their exact total has
\* no more than MantBits significant bits.
SomasExatas(lanc) == SomaExata(Coluna(lanc, "valor")) < Pow2(MantBits)

TotalDebitos == Soma(Coluna(balancete, "debito"))
TotalCreditos == Soma(Coluna(balancete, "credito"))

\* C1 as stated: with unique codes and every code of the journal in the
\* chart, the debit totals and the credit totals of the trial balance add up
\* to exactly the same, the sum of the amounts of the entries (added as floats
\* in the order of the journal).
C1_ConservacaoExata ==
    (pc = "balancete" /\ CodigosUnicos(plano_contas) /\ Resolvido(plano_contas, lancamentos))
        => /\ TotalDebitos = TotalCreditos
           /\ TotalDebitos = Soma(Coluna(lancamentos, "valor"))

\* C1 as amended: the same, for the journals whose additions do not round.
C1_Conservacao ==
    (/\ pc = "balancete"
     /\ CodigosUnicos(plano_contas)
     /\ Resolvido(plano_contas, lancamentos)
     /\ SomasExatas(lancamentos))
        => /\ TotalDebitos = TotalCreditos
           /\ TotalDebitos = SomaExata(Coluna(lancamentos, "valor"))

\* A trial balance of five entries, one of them with the same account on
\* both sides, whose additions do not round.
C1_Witness ==
    /\ pc = "balancete"
    /\ CodigosUnicos(plano_contas)
    /\ Resolvido(plano_contas, lancamentos)
    /\ SomasExatas(lancamentos)
    /\ Len(lancamentos) = 5
    /\ \E k \in 1..5 : lancamentos[k].conta_debito = lancamentos[k].conta_credito
    /\ \E k \in 1..5 : lancamentos[k].conta_debito # lancamentos[k].conta_credito
    /\ TotalDebitos = 10
    /\ TotalCreditos = 10

\* C2 as stated: no builder ends in an exception, whatever the chart and the
\* journal.
C2_Totalidade == erro = ""

\* C3 as stated: the tables handed to a builder are, after the call, the
\* tables that were handed to it.
C3_EntradasIntactas ==
    /\ passado.plano_contas = plano_contas
    /\ passado.lancamentos = lancamentos
    /\ pc \in {"dre", "balanco", "indireto"} => passado.balancete = balancete
    /\ pc = "indireto" => passado.fluxo_direto = fluxo_direto

\* C4: the balances of every row of the trial balance follow the nature of
\* its account; both are >= 0, at most one is not 0, and their difference is
\* the difference of the totals; totals of 100 and 30 give 70 and 0 for both
\* natures, with a balance of 70 (debit nature) and -70 (credit nature).
C4_Sinais ==
    pc = "balancete" =>
        \A i \in 1..Len(balancete) :
            LET r == balancete[i]
                dev == r.natureza = "Devedora"
            IN  /\ r.saldo = IF dev THEN FSub(r.debito, r.credito)
                                    ELSE FSub(r.credito, r.debito)
                /\ r.saldo_devedor =
                       IF dev THEN (IF r.saldo > 0 THEN r.saldo ELSE 0)
                              ELSE (IF -r.saldo > 0 THEN -r.saldo ELSE 0)
                /\ r.saldo_credor =
                       IF dev THEN (IF -r.saldo > 0 THEN -r.saldo ELSE 0)
                              ELSE (IF r.saldo > 0 THEN r.saldo ELSE 0)
                /\ r.saldo_devedor >= 0
                /\ r.saldo_credor >= 0
                /\ r.saldo_devedor = 0 \/ r.saldo_credor = 0
                /\ FSub(r.saldo_devedor, r.saldo_credor) = FSub(r.debito, r.credito)
                /\ (r.debito = 100 /\ r.credito = 30) =>
                       /\ r.saldo_devedor = 70
                       /\ r.saldo_credor = 0
                       /\ r.saldo = IF dev THEN 70 ELSE -70

\* A trial balance with totals of 100 and 30 on a row of each nature, and a
\* credit-natured row with a credit balance.
C4_Witness ==
    /\ pc = "balancete"
    /\ \E i, j \in 1..Len(balancete) :
          /\ balancete[i].natureza = "Devedora"
          /\ balancete[i].debito = 100 /\ balancete[i].credito = 30
          /\ balancete[j].natureza = "Credora"
          /\ balancete[j].debito = 100 /\ balancete[j].credito = 30
          /\ balancete[j].saldo = -70

Tipos == {"Entrada de Caixa", "Saída de Caixa"}

Grupos ==
    {"Ativo", "Passivo", "Patrimônio Líquido", "Resultado - Receita",
     "Resultado - Despesa"}

\* The account of a code (of a chart with unique codes).
ContaDe(plano, cod) == plano[CHOOSE i \in 1..Len(plano) : plano[i].codigo = cod]

\* The code is the code of a cash account.
DeCaixa(plano, cod) ==
    \E i \in 1..Len(plano) : plano[i].codigo = cod /\ plano[i].eh_caixa

\* The entries of the journal that qualify for the line (tipo, grupo).
Qualificados(plano, lanc, tipo, grupo) ==
    LET Q(l) ==
            IF tipo = "Entrada de Caixa"
            THEN /\ DeCaixa(plano, l.conta_debito)
                 /\ ~DeCaixa(plano, l.conta_credito)
                 /\ ContaDe(plano, l.conta_credito).grupo = grupo
            ELSE /\ DeCaixa(plano, l.conta_credito)
                 /\ ~DeCaixa(plano, l.conta_debito)
                 /\ ContaDe(plano, l.conta_debito).grupo = grupo
    IN  SelectSeq(lanc, Q)

\* C5: with unique codes and every code of the journal in the chart, the
\* direct method returns one line for each (direction, counterpart group) that
\* some entry qualifies for and no other line; the amount of the line on the
\* side of its direction is the sum of the amounts of those entries and the
\* other amount is 0; the lines ascend by (direction, group), the inflows
\* first.
C5_FluxoDireto ==
    (/\ pc = "direto"
     /\ CodigosUnicos(plano_contas)
     /\ Resolvido(plano_contas, lancamentos))
        => LET rows == fluxo_direto.rows
           IN  /\ fluxo_direto.columns = ColunasFluxo
               /\ \A t \in Tipos, g \in Grupos :
                      Cardinality({i \in 1..Len(rows) :
                                      rows[i].tipo = t /\ rows[i].grupo_contraparte = g})
                          = IF Qualificados(plano_contas, lancamentos, t, g) # <<>>
                            THEN 1 ELSE 0
               /\ \A i \in 1..Len(rows) :
                      LET total == Soma(Coluna(Qualificados(plano_contas, lancamentos,
                                                rows[i].tipo, rows[i].grupo_contraparte),
                                               "valor"))
                      IN  /\ rows[i].tipo \in Tipos
                          /\ rows[i].grupo_contraparte \in Grupos
                          /\ rows[i].tipo = "Entrada de Caixa"
                                 => rows[i].entrada = total /\ rows[i].saida = 0
                          /\ rows[i].tipo = "Saída de Caixa"
                                 => rows[i].saida = total /\ rows[i].entrada = 0
               /\ \A i, j \in 1..Len(rows) :
                      i < j =>
                          /\ ChaveMenor(<<rows[i].tipo, rows[i].grupo_contraparte>>,
                                        <<rows[j].tipo, rows[j].grupo_contraparte>>)
                          /\ ~(rows[i].tipo = "Saída de Caixa"
                                  /\ rows[j].tipo = "Entrada de Caixa")

\* The direct-method table of a journal that lists the inflow from equity
\* before the inflow from a liability and holds a transfer between two cash
\* accounts and an entry of a cash account against itself: three lines, the
\* inflows first, by group.
C5_Witness ==
    /\ pc = "direto"
    /\ plano_contas = PlanoFluxo
    /\ lancamentos = DiarioFluxo
    /\ Len(fluxo_direto.rows) = 3
    /\ fluxo_direto.rows[1] = [tipo |-> "Entrada de Caixa", grupo_contraparte |-> "Passivo",
                               entrada |-> 2, saida |-> 0]
    /\ fluxo_direto.rows[2] = [tipo |-> "Entrada de Caixa",
                               grupo_contraparte |-> "Patrimônio Líquido",
                               entrada |-> 2, saida |-> 0]
    /\ fluxo_direto.rows[3] = [tipo |-> "Saída de Caixa", grupo_contraparte |-> "Passivo",
                               entrada |-> 0, saida |-> 2]

TotalReceitas == Soma(Coluna(SelectSeq(balancete, EhReceita), "saldo_credor"))
TotalDespesas == Soma(Coluna(SelectSeq(balancete, EhDespesa), "saldo_devedor"))

\* C6: the net income is the credit balances of the revenue rows less the
\* debit balances of the expense rows; the statement has the three lines
\* Receitas, (-) Despesas and the net income, the third the sum of the other
\* two; the rows of the other groups do not change the result.
C6_LucroLiquido ==
    pc = "dre" =>
        /\ lucro = FSub(TotalReceitas, TotalDespesas)
        /\ Len(dre) = 3
        /\ dre[1].descricao = "Receitas" /\ dre[1].valor = TotalReceitas
        /\ dre[2].descricao = "(-) Despesas" /\ dre[2].valor = -TotalDespesas
        /\ dre[3].descricao = "= Lucro / Prejuízo do Período" /\ dre[3].valor = lucro
        /\ dre[3].valor = FAdd(dre[1].valor, dre[2].valor)
        /\ LET DeResultado(r) == EhReceita(r) \/ EhDespesa(r)
               so_resultado == calcula_dre(SelectSeq(balancete, DeResultado))
           IN  so_resultado.dre = dre /\ so_resultado.lucro_liquido = lucro

\* The income statement of the scenario: 1000, -300 and 700, beside a cash
\* account that has a balance.
C6_Witness ==
    /\ pc = "dre"
    /\ lancamentos = DiarioCenario
    /\ dre[1].valor = 1000
    /\ dre[2].valor = -300
    /\ lucro = 700
    /\ \E i \in 1..Len(balancete) : EhAtivo(balancete[i]) /\ balancete[i].saldo_devedor = 700

\* The operating cash of the table handed to the indirect method.
CaixaOperacional ==
    LET rows == passado.fluxo_direto.rows
    IN  Soma([i \in 1..Len(rows) |-> FSub(rows[i].entrada, rows[i].saida)])

VariacaoCaixa == Soma(Coluna(SelectSeq(balancete, EhCaixa), "saldo"))

\* The four lines of the indirect method.
LinhasIndireto ==
    /\ Len(fluxo_indireto) = 4
    /\ fluxo_indireto[1].descricao = "Lucro / Prejuízo do Período"
    /\ fluxo_indireto[1].valor = lucro
    /\ fluxo_indireto[2].descricao = "(+/-) Ajustes no capital de giro (simplificado)"
    /\ fluxo_indireto[2].valor = FSub(CaixaOperacional, lucro)
    /\ fluxo_indireto[3].descricao = "= Caixa líquido das atividades operacionais"
    /\ fluxo_indireto[3].valor = CaixaOperacional
    /\ fluxo_indireto[4].descricao = "Variação de Caixa no Período"
    /\ fluxo_indireto[4].valor = VariacaoCaixa

EhCenario == plano_contas = PlanoCenario /\ lancamentos = DiarioCenario

ValoresCenario ==
    /\ fluxo_indireto[1].valor = 700
    /\ fluxo_indireto[2].valor = 0
    /\ fluxo_indireto[3].valor = 700
    /\ fluxo_indireto[4].valor = 700

\* C7 as stated: the indirect method returns the net income, the operating
\* cash less the net income, the operating cash and the sum of the balances
\* of the cash rows; the first line plus the second is always the third; the
\* scenario gives 700, 0, 700, 700.
C7_IndiretoSempre ==
    pc = "indireto" =>
        /\ LinhasIndireto
        /\ FAdd(fluxo_indireto[1].valor, fluxo_indireto[2].valor) = fluxo_indireto[3].valor
        /\ EhCenario => ValoresCenario

\* C7 as amended: the first line plus the second is the third when the
\* subtraction that gives the second does not round.
C7_Indireto ==
    pc = "indireto" =>
        /\ LinhasIndireto
        /\ (CaixaOperacional - lucro = FSub(CaixaOperacional, lucro))
              => FAdd(fluxo_indireto[1].valor, fluxo_indireto[2].valor)
                     = fluxo_indireto[3].valor
        /\ EhCenario => ValoresCenario

\* The indirect method of the scenario.
C7_Witness ==
    /\ pc = "indireto"
    /\ EhCenario
    /\ ValoresCenario
    /\ Len(passado.fluxo_direto.rows) = 2

\* The rows of the trial balance of a group, valued at the column col.
Balde(grupo, col) ==
    LET idx == SelectSeq([i \in 1..Len(balancete) |-> i],
                         LAMBDA i : balancete[i].grupo = grupo)
    IN  [k \in 1..Len(idx) |->
            [codigo |-> balancete[idx[k]].codigo, conta |-> balancete[idx[k]].conta,
             valor |-> balancete[idx[k]][col]]]

\* C8: the assets bucket holds every asset row once, valued at its debit
\* balance, the liabilities and the equity buckets every row of their group
\* once, valued at its credit balance, each in the order of the chart; no
\* other row is in a bucket and a row of value 0 is kept.
C8_Balanco ==
    pc = "balanco" =>
        /\ bp.ativo = Balde("Ativo", "saldo_devedor")
        /\ bp.passivo = Balde("Passivo", "saldo_credor")
        /\ bp.pl = Balde("Patrimônio Líquido", "saldo_credor")
        /\ Len(bp.ativo) + Len(bp.passivo) + Len(bp.pl)
              = Cardinality({i \in 1..Len(balancete) :
                    balancete[i].grupo \notin {"Resultado - Receita", "Resultado - Despesa"}})

\* A balance sheet with an asset, a liability of value 0 that no entry
\* touches and an equity account with a balance.
C8_Witness ==
    /\ pc = "balanco"
    /\ lancamentos # <<>>
    /\ Len(bp.ativo) = 1 /\ bp.ativo[1].valor > 0
    /\ Len(bp.passivo) = 1 /\ bp.passivo[1].valor = 0
    /\ Len(bp.pl) = 1 /\ bp.pl[1].valor > 0
    /\ \A k \in 1..Len(lancamentos) :
          /\ lancamentos[k].conta_debito # Fornecedores.codigo
          /\ lancamentos[k].conta_credito # Fornecedores.codigo

\* C9 as stated: every entry of the journal of the session has its two codes
\* in the chart of the session.
C9_Integridade == Resolvido(plano_contas, lancamentos)

CaixaDevedora(plano) ==
    \A i \in 1..Len(plano) : plano[i].eh_caixa => plano[i].natureza = "Devedora"

\* C10 as stated: with unique codes, every cash account of debit nature and
\* every code of the journal in the chart, the operating cash of the direct
\* method is the cash variation of the trial balance.
C10_CaixaConciliaSempre ==
    (/\ pc = "indireto"
     /\ CodigosUnicos(plano_contas)
     /\ CaixaDevedora(plano_contas)
     /\ Resolvido(plano_contas, lancamentos))
        => fluxo_indireto[3].valor = fluxo_indireto[4].valor

\* C10 as amended: the same, for the journals whose additions do not round.
C10_CaixaConcilia ==
    (/\ pc = "indireto"
     /\ CodigosUnicos(plano_contas)
     /\ CaixaDevedora(plano_contas)
     /\ Resolvido(plano_contas, lancamentos)
     /\ SomasExatas(lancamentos))
        => fluxo_indireto[3].valor = fluxo_indireto[4].valor

\* The two figures agree and are not 0 after an inflow, a transfer between
\* two cash accounts and an entry with the same cash account on both sides.
C10_Witness ==
    /\ pc = "indireto"
    /\ CodigosUnicos(plano_contas)
    /\ CaixaDevedora(plano_contas)
    /\ Resolvido(plano_contas, lancamentos)
    /\ SomasExatas(lancamentos)
    /\ fluxo_indireto[3].valor = 2
    /\ fluxo_indireto[4].valor = 2
    /\ \E k \in 1..Len(lancamentos) :
          /\ DeCaixa(plano_contas, lancamentos[k].conta_debito)
          /\ DeCaixa(plano_contas, lancamentos[k].conta_credito)
          /\ lancamentos[k].conta_debito # lancamentos[k].conta_credito
    /\ \E k \in 1..Len(lancamentos) :
          /\ DeCaixa(plano_contas, lancamentos[k].conta_debito)
          /\ lancamentos[k].conta_debito = lancamentos[k].conta_credito

====
